---- MODULE Spec2Model ----
(***************************************************************************)
(* Legal Document Simplifier: the analysis service (backend/server.js) and *)
(* the browser controller that calls it.                                   *)
(*                                                                         *)
(* Two kinds of strings occur.  The oracle's response text is a sequence   *)
(* of one-character strings, so that the fence-stripping regular           *)
(* expressions and JSON.parse act on characters.  The text to analyse      *)
(* (request text, file content, extracted text) is compared against the    *)
(* 10000-character limit, so it is kept run-length encoded: a sequence of  *)
(* runs [ch, n], n >= 1, adjacent runs of different characters.            *)
(***************************************************************************)
EXTENDS Integers, Sequences, FiniteSets, TLC

VARIABLES
    requests,   \* server: request id -> the request's handler state
    files,      \* server: the temporary files present under uploads/
    currentFile,\* client: the selected file, or NoCurrentFile
    searchInput,\* client: the value of the search input
    loader,     \* client: "hidden" or "shown"
    results,    \* client: what the results panel shows
    inflight,   \* client: fetch id -> the promise chain of a fetch not yet through
    J,          \* parser: the JSON document under test
    parsed      \* parser: what each way of presenting J parsed to

serverVars == <<requests, files>>
clientVars == <<currentFile, searchInput, loader, results, inflight>>
parserVars == <<J, parsed>>
vars == <<requests, files, currentFile, searchInput, loader, results, inflight, J, parsed>>

(***************************************************************************)
(* Character strings                                                       *)
(***************************************************************************)
simplified == <<"s", "i", "m", "p", "l", "i", "f", "i", "e", "d">>
riskAssessment == <<"r", "i", "s", "k", "A", "s", "s", "e", "s", "s", "m", "e", "n", "t">>
overallRisk == <<"o", "v", "e", "r", "a", "l", "l", "R", "i", "s", "k">>
riskFactors == <<"r", "i", "s", "k", "F", "a", "c", "t", "o", "r", "s">>
metadata == <<"m", "e", "t", "a", "d", "a", "t", "a">>
low == <<"l", "o", "w">>
medium == <<"m", "e", "d", "i", "u", "m">>
high == <<"h", "i", "g", "h">>
nullLiteral == <<"n", "u", "l", "l">>
trueLiteral == <<"t", "r", "u", "e">>
falseLiteral == <<"f", "a", "l", "s", "e">>
\* the grave accent, which a TLA+ string cannot hold: one character, named
Backtick == "GRAVE"
FenceJson == <<Backtick, Backtick, Backtick, "j", "s", "o", "n">>
Fence == <<Backtick, Backtick, Backtick>>

\* String.prototype.trim's white space, as far as the alphabet goes
TrimWs == {" ", "\n", "\t", "\r"}
\* JSON's insignificant white space
JsonWs == {" ", "\n", "\t", "\r"}
\* control characters, which JSON forbids raw inside a string
ControlChars == {"\n", "\t", "\r"}
Digits == {"0", "1", "2", "3", "4", "5", "6", "7", "8", "9"}

StartsWith(s, i, p) ==
    /\ i + Len(p) - 1 <= Len(s)
    /\ SubSeq(s, i, i + Len(p) - 1) = p

\* the first position from i on where the fence occurs in s, 0 when none does
NextMatch(s, i, fence) ==
    LET at == {j \in i .. Len(s) : StartsWith(s, j, fence)}
    IN  IF at = {} THEN 0 ELSE CHOOSE j \in at : \A k \in at : j <= k

\* s.replace(/<fence>\n?/g, ''), scanning from position i: every occurrence of
\* the fence, leftmost first, is removed with the newline after it if there is one
RECURSIVE ReplaceFence(_, _, _)
ReplaceFence(s, i, fence) ==
    LET j == NextMatch(s, i, fence)
        e == j + Len(fence)
    IN  IF j = 0 THEN SubSeq(s, i, Len(s))
        ELSE SubSeq(s, i, j - 1)
             \o ReplaceFence(s, IF e <= Len(s) /\ s[e] = "\n" THEN e + 1 ELSE e, fence)

RECURSIVE TrimStart(_)
TrimStart(s) == IF s # <<>> /\ Head(s) \in TrimWs THEN TrimStart(Tail(s)) ELSE s

RECURSIVE TrimEnd(_)
TrimEnd(s) ==
    IF s # <<>> /\ s[Len(s)] \in TrimWs THEN TrimEnd(SubSeq(s, 1, Len(s) - 1)) ELSE s

trim(s) == TrimEnd(TrimStart(s))

\* responseText.replace(/<fence>json\n?/g, '').replace(/<fence>\n?/g, '').trim()
cleanText(responseText) ==
    trim(ReplaceFence(ReplaceFence(responseText, 1, FenceJson), 1, Fence))

(***************************************************************************)
(* JSON values and JSON.parse                                              *)
(***************************************************************************)
JUndefined == [type |-> "undefined"]
JNull == [type |-> "null"]
JBool(b) == [type |-> "boolean", bool |-> b]
JNum(n) == [type |-> "number", num |-> n]
JStr(s) == [type |-> "string", chars |-> s]
JArr(xs) == [type |-> "array", items |-> xs]
\* members: a sequence of [key, value], keys distinct, in insertion order
JObj(ms) == [type |-> "object", members |-> ms]

\* obj[key] = value: a key already present keeps its place and takes the value
RECURSIVE SetMember(_, _, _)
SetMember(ms, key, value) ==
    IF ms = <<>> THEN <<[key |-> key, value |-> value]>>
    ELSE IF Head(ms).key = key THEN <<[key |-> key, value |-> value]>> \o Tail(ms)
    ELSE <<Head(ms)>> \o SetMember(Tail(ms), key, value)

Fail == [ok |-> FALSE, value |-> JNull, next |-> 0]
Ok(v, n) == [ok |-> TRUE, value |-> v, next |-> n]

RECURSIVE SkipWs(_, _)
SkipWs(s, i) == IF i <= Len(s) /\ s[i] \in JsonWs THEN SkipWs(s, i + 1) ELSE i

\* the index of the quote closing a string whose content starts at i; 0 when
\* there is none or a raw control character comes first
RECURSIVE StringEnd(_, _)
StringEnd(s, i) ==
    IF i > Len(s) THEN 0
    ELSE IF s[i] = "\"" THEN i
    ELSE IF s[i] \in ControlChars THEN 0
    ELSE StringEnd(s, i + 1)

ParseString(s, i) ==
    LET j == StringEnd(s, i + 1)
    IN  IF j = 0 THEN Fail ELSE Ok(JStr(SubSeq(s, i + 1, j - 1)), j + 1)

DigitValue(c) ==
    CASE c = "0" -> 0 [] c = "1" -> 1 [] c = "2" -> 2 [] c = "3" -> 3 [] c = "4" -> 4
      [] c = "5" -> 5 [] c = "6" -> 6 [] c = "7" -> 7 [] c = "8" -> 8 [] c = "9" -> 9

\* a non-negative integer: "0", or a run of digits not starting with "0"
RECURSIVE ParseDigits(_, _, _)
ParseDigits(s, i, acc) ==
    IF i <= Len(s) /\ s[i] \in Digits
    THEN ParseDigits(s, i + 1, 10 * acc + DigitValue(s[i]))
    ELSE Ok(JNum(acc), i)

ParseNumber(s, i) == IF s[i] = "0" THEN Ok(JNum(0), i + 1) ELSE ParseDigits(s, i, 0)

RECURSIVE ParseValue(_, _)
RECURSIVE ParseMembers(_, _, _)
RECURSIVE ParseElements(_, _, _)

ParseValue(s, i0) ==
    LET i == SkipWs(s, i0)
    IN  IF i > Len(s) THEN Fail
        ELSE CASE s[i] = "{" ->
                    LET k == SkipWs(s, i + 1)
                    IN  IF k <= Len(s) /\ s[k] = "}" THEN Ok(JObj(<<>>), k + 1)
                        ELSE ParseMembers(s, k, <<>>)
               [] s[i] = "[" ->
                    LET k == SkipWs(s, i + 1)
                    IN  IF k <= Len(s) /\ s[k] = "]" THEN Ok(JArr(<<>>), k + 1)
                        ELSE ParseElements(s, k, <<>>)
               [] s[i] = "\"" -> ParseString(s, i)
               [] s[i] \in Digits -> ParseNumber(s, i)
               [] s[i] = "n" ->
                    IF StartsWith(s, i, nullLiteral) THEN Ok(JNull, i + 4) ELSE Fail
               [] s[i] = "t" ->
                    IF StartsWith(s, i, trueLiteral) THEN Ok(JBool(TRUE), i + 4) ELSE Fail
               [] s[i] = "f" ->
                    IF StartsWith(s, i, falseLiteral) THEN Ok(JBool(FALSE), i + 5) ELSE Fail
               [] OTHER -> Fail

\* the members of an object from the key at i on; acc holds those read so far
ParseMembers(s, i, acc) ==
    IF i > Len(s) \/ s[i] # "\"" THEN Fail
    ELSE LET k == ParseString(s, i)
         IN  IF ~k.ok THEN Fail
             ELSE LET c == SkipWs(s, k.next)
                  IN  IF c > Len(s) \/ s[c] # ":" THEN Fail
                      ELSE LET v == ParseValue(s, c + 1)
                           IN  IF ~v.ok THEN Fail
                               ELSE LET e == SkipWs(s, v.next)
                                        acc2 == SetMember(acc, k.value.chars, v.value)
                                    IN  IF e > Len(s) THEN Fail
                                        ELSE IF s[e] = "}" THEN Ok(JObj(acc2), e + 1)
                                        ELSE IF s[e] = ","
                                             THEN ParseMembers(s, SkipWs(s, e + 1), acc2)
                                        ELSE Fail

\* the elements of an array from the value at i on
ParseElements(s, i, acc) ==
    LET v == ParseValue(s, i)
    IN  IF ~v.ok THEN Fail
        ELSE LET e == SkipWs(s, v.next)
                 acc2 == Append(acc, v.value)
             IN  IF e > Len(s) THEN Fail
                 ELSE IF s[e] = "]" THEN Ok(JArr(acc2), e + 1)
                 ELSE IF s[e] = "," THEN ParseElements(s, e + 1, acc2)
                 ELSE Fail

\* JSON.parse(s): ok = FALSE stands for the SyntaxError it throws
JSONParse(s) ==
    LET r == ParseValue(s, 1)
    IN  IF r.ok /\ SkipWs(s, r.next) > Len(s)
        THEN [ok |-> TRUE, value |-> r.value]
        ELSE [ok |-> FALSE, value |-> JUndefined]

\* The response parser of both endpoints: strip the fences, then JSON.parse
ParseResponse(responseText) == JSONParse(cleanText(responseText))

DigitChars == <<"0", "1", "2", "3", "4", "5", "6", "7", "8", "9">>

\* the decimal digits of a natural number
RECURSIVE ToDigits(_)
ToDigits(n) ==
    IF n < 10 THEN <<DigitChars[n + 1]>>
    ELSE ToDigits(n \div 10) \o <<DigitChars[(n % 10) + 1]>>

(***************************************************************************)
(* The texts a generation oracle can answer with                           *)
(***************************************************************************)
RECURSIVE JoinMembers(_)
RECURSIVE JoinItems(_)
RECURSIVE Serialize(_)

\* the compact JSON text of a value
Serialize(v) ==
    CASE v.type = "null" -> nullLiteral
      [] v.type = "boolean" -> IF v.bool THEN trueLiteral ELSE falseLiteral
      [] v.type = "number" -> ToDigits(v.num)
      [] v.type = "string" -> <<"\"">> \o v.chars \o <<"\"">>
      [] v.type = "array" -> <<"[">> \o JoinItems(v.items) \o <<"]">>
      [] v.type = "object" -> <<"{">> \o JoinMembers(v.members) \o <<"}">>

JoinMembers(ms) ==
    IF ms = <<>> THEN <<>>
    ELSE <<"\"">> \o Head(ms).key \o <<"\"", ":">> \o Serialize(Head(ms).value)
         \o (IF Tail(ms) = <<>> THEN <<>> ELSE <<",">> \o JoinMembers(Tail(ms)))

JoinItems(xs) ==
    IF xs = <<>> THEN <<>>
    ELSE Serialize(Head(xs))
         \o (IF Tail(xs) = <<>> THEN <<>> ELSE <<",">> \o JoinItems(Tail(xs)))

\* <fence>json, newline, text, newline, <fence>
Fenced(text) == FenceJson \o <<"\n">> \o text \o <<"\n">> \o Fence


(***************************************************************************)
(* Run-length encoded text                                                 *)
(***************************************************************************)
Run(ch, n) == [ch |-> ch, n |-> n]

RECURSIVE TextLength(_)
\* text.length
TextLength(t) == IF t = <<>> THEN 0 ELSE Head(t).n + TextLength(Tail(t))

\* a + b
Concat(a, b) ==
    IF a = <<>> THEN b
    ELSE IF b = <<>> THEN a
    ELSE IF a[Len(a)].ch = Head(b).ch
         THEN SubSeq(a, 1, Len(a) - 1) \o <<Run(Head(b).ch, a[Len(a)].n + Head(b).n)>>
              \o Tail(b)
         ELSE a \o b

RECURSIVE Substring(_, _)
\* t.substring(0, n)
Substring(t, n) ==
    IF t = <<>> \/ n <= 0 THEN <<>>
    ELSE IF Head(t).n >= n THEN <<Run(Head(t).ch, n)>>
    ELSE <<Head(t)>> \o Substring(Tail(t), n - Head(t).n)

RECURSIVE TextTrimStart(_)
TextTrimStart(t) ==
    IF t # <<>> /\ Head(t).ch \in TrimWs THEN TextTrimStart(Tail(t)) ELSE t

RECURSIVE TextTrimEnd(_)
TextTrimEnd(t) ==
    IF t # <<>> /\ t[Len(t)].ch \in TrimWs
    THEN TextTrimEnd(SubSeq(t, 1, Len(t) - 1))
    ELSE t

\* t.trim()
TextTrim(t) == TextTrimEnd(TextTrimStart(t))

(***************************************************************************)
(* The analysis service                                                    *)
(***************************************************************************)
MaxTextLength == 10000
MaxFileSize == 10 * 1024 * 1024
\* the truncation marker '...'
Ellipsis == <<Run(".", 3)>>
\* the requests the server is handling at one time
MaxRequests == 1

RequestIds == 1 .. MaxRequests
\* multer names each stored file at random: a name is never one that is in the
\* directory or that a request in progress was given
Paths == 1 .. MaxRequests

NoResponse == [status |-> 0]
ErrorBody(status, error, message) ==
    [status |-> status, error |-> error, message |-> message]
\* res.json(body)
OkBody(body) == [status |-> 200, body |-> body]

\* the texts a request or a file carries, and the PDF oracle extracts
Texts ==
    { <<>>,
      <<Run(" ", 1)>>,
      <<Run("\n", 2), Run(" ", 3)>>,
      <<Run("a", 1)>>,
      <<Run(" ", 1), Run("a", 2), Run("\n", 1)>>,
      <<Run("a", MaxTextLength)>>,
      <<Run("a", MaxTextLength + 1)>>,
      <<Run(" ", 1), Run("a", MaxTextLength - 1), Run("b", 5)>> }

NoFile == [mimetype |-> "", size |-> 0, content |-> <<>>]
\* the files a multipart request can attach
UploadFiles ==
    { [mimetype |-> "text/plain", size |-> TextLength(t), content |-> t] : t \in Texts }
    \cup { [mimetype |-> m, size |-> n, content |-> <<Run("%", n)>>] :
              m \in {"application/pdf", "image/png"}, n \in {2048, MaxFileSize + 1} }
    \cup { [mimetype |-> "application/pdf", size |-> MaxFileSize,
            content |-> <<Run("%", MaxFileSize)>>] }

okText == <<"o", "k">>
textLength == <<"t", "e", "x", "t", "L", "e", "n", "g", "t", "h">>
fileSize == <<"f", "i", "l", "e", "S", "i", "z", "e">>
Member(k, v) == [key |-> k, value |-> v]
GoodRisk == JObj(<<Member(overallRisk, JStr(low)), Member(riskFactors, JArr(<<>>))>>)
GoodDoc == JObj(<<Member(simplified, JStr(okText)), Member(riskAssessment, GoodRisk)>>)

\* the JSON values the generation oracle can answer with
OracleDocs ==
    { GoodDoc,
      JObj(<<Member(simplified, JStr(okText))>>),
      JObj(<<Member(riskAssessment, GoodRisk)>>),
      JObj(<<>>),
      JNull,
      JStr(okText),
      JObj(<<Member(simplified, JStr(okText)),
             Member(riskAssessment,
                    JObj(<<Member(overallRisk, JStr(<<"h", "u", "g", "e">>))>>))>>),
      JObj(<<Member(simplified, JNum(1)), Member(riskAssessment, JStr(high))>>),
      JObj(<<Member(simplified, JStr(<<"a", Backtick, Backtick, Backtick, "b">>)),
             Member(riskAssessment, GoodRisk)>>) }

\* the response texts: JSON raw or fenced, JSON cut short, and prose
OracleTexts ==
    { Serialize(d) : d \in OracleDocs }
    \cup { Fenced(Serialize(GoodDoc)),
           Fenced(Serialize(JObj(<<Member(simplified, JStr(okText))>>))),
           SubSeq(Serialize(GoodDoc), 1, Len(Serialize(GoodDoc)) - 1),
           <<"S", "o", "r", "r", "y">> }

\* what pdf(buffer) can do: reject, or resolve to the extracted text
PdfOutcomes ==
    { [failed |-> TRUE, text |-> <<>>] } \cup { [failed |-> FALSE, text |-> t] : t \in Texts }

(* JavaScript on parsed values *)

\* v[key]; reading a property of null or undefined throws a TypeError
Throws(v) == v.type \in {"null", "undefined"}

RECURSIVE Lookup(_, _)
Lookup(ms, key) ==
    IF ms = <<>> THEN JUndefined
    ELSE IF Head(ms).key = key THEN Head(ms).value
    ELSE Lookup(Tail(ms), key)

GetProp(v, key) == IF v.type = "object" THEN Lookup(v.members, key) ELSE JUndefined

\* !!v
Truthy(v) ==
    CASE v.type \in {"undefined", "null"} -> FALSE
      [] v.type = "boolean" -> v.bool
      [] v.type = "number" -> v.num # 0
      [] v.type = "string" -> v.chars # <<>>
      [] OTHER -> TRUE

\* { ...v }: the own enumerable properties of v
Spread(v) ==
    CASE v.type = "object" -> v.members
      [] v.type = "array" -> [i \in 1 .. Len(v.items) |-> Member(ToDigits(i - 1), v.items[i])]
      [] v.type = "string" ->
            [i \in 1 .. Len(v.chars) |-> Member(ToDigits(i - 1), JStr(<<v.chars[i]>>))]
      [] OTHER -> <<>>

(* One request: its input, the handler's position, and the response sent.    *)
(* hasFile: the multipart body attaches a file; stored: multer accepted it,   *)
(* wrote it to path and set req.file.  extracted: the extraction of lines     *)
(* 192-198 returned, with rawText; extractedText is the variable of that name *)
(* at its last assignment.  caught: the error a catch block has caught.       *)
NewRequest(endpoint, hasText, text, hasFile, file) ==
    [endpoint |-> endpoint,
     pc |-> IF endpoint = "upload" THEN "multer" ELSE "handler",
     hasText |-> hasText, text |-> text,
     hasFile |-> hasFile, file |-> file,
     stored |-> FALSE, path |-> 0,
     extracted |-> FALSE, rawText |-> <<>>, extractedText |-> <<>>,
     caught |-> "",
     oracleCalls |-> 0,
     responseText |-> <<>>,
     response |-> NoResponse]

Respond(r, response) == [r EXCEPT !.pc = "done", !.response = response]

\* const result = await model.generateContent(prompt)
CallOracle(r) == [r EXCEPT !.pc = "awaitOracle", !.oracleCalls = @ + 1]

(* POST /analyze *)

\* a catch block that calls the oracle once more before giving up
AnalyzeCatch_Retry(r, error) ==
    IF error = "oracle" /\ r.oracleCalls < 2
    THEN CallOracle(r)
    ELSE Respond([r EXCEPT !.caught = error],
                 ErrorBody(500, "Internal Server Error",
                           "An unexpected error occurred while analyzing the document"))

\* the catch block of /analyze
AnalyzeCatch(r, error) ==
    Respond([r EXCEPT !.caught = error],
            ErrorBody(500, "Internal Server Error",
                         "An unexpected error occurred while analyzing the document"))

\* a validation that forgets the length limit
AnalyzeHandler_NoLengthCheck(r) ==
    IF ~r.hasText \/ r.text = <<>>
    THEN Respond(r, ErrorBody(400, "Validation Error", "Text content is required"))
    ELSE CallOracle(r)

\* from the handler's entry to its first await: the validation of text
AnalyzeHandler(r) ==
    IF ~r.hasText \/ r.text = <<>>
    THEN Respond(r, ErrorBody(400, "Validation Error", "Text content is required"))
    ELSE IF TextLength(r.text) > MaxTextLength
    THEN Respond(r, ErrorBody(400, "Validation Error",
                              "Text must be less than 10,000 characters"))
    ELSE CallOracle(r)

\* { ...analysisData, metadata: { textLength: text.length } }
\* (timestamp and hasQuery play no part and are left out)
AnalyzeResponseData(r, analysisData) ==
    JObj(SetMember(Spread(analysisData), metadata,
                   JObj(<<Member(textLength, JNum(TextLength(r.text)))>>)))

\* "Validate response structure"
AnalyzeStructureOk(analysisData) ==
    /\ Truthy(GetProp(analysisData, simplified))
    /\ Truthy(GetProp(analysisData, riskAssessment))

\* from the oracle's answer to the response
AnalyzeRespond(r, responseText) ==
    LET p == ParseResponse(responseText)
    IN  IF ~p.ok
        THEN Respond(r, ErrorBody(500, "API Processing Error",
                                  "Failed to parse analysis from AI service"))
        ELSE IF Throws(p.value) THEN AnalyzeCatch(r, "TypeError")
        ELSE IF ~AnalyzeStructureOk(p.value)
        THEN Respond(r, ErrorBody(500, "API Processing Error",
                                  "Invalid analysis response structure"))
        ELSE Respond(r, OkBody(AnalyzeResponseData(r, p.value)))

(* POST /upload *)

\* multer's fileFilter
FileFilter(file) == file.mimetype \in {"application/pdf", "text/plain"}

\* multer's limits.fileSize
WithinLimits(file) == file.size <= MaxFileSize

\* the error handling middleware
ErrorMiddleware(err) ==
    IF err = "LIMIT_FILE_SIZE"
    THEN ErrorBody(400, "File Error", "File size too large. Maximum size is 10MB.")
    ELSE ErrorBody(500, "Internal Server Error", "An unexpected error occurred")

\* a step of a handler yields the request and the upload directory after it
Step(r, fs) == [request |-> r, files |-> fs]

\* a catch block that answers 500 and leaves the file where it is
UploadCatch_NoCleanup(r, fs, error) ==
    Step(Respond([r EXCEPT !.caught = error],
                 ErrorBody(500, "Internal Server Error",
                           "An unexpected error occurred while processing the file")),
         fs)

\* the catch block of /upload: remove the file if it is there, answer 500
UploadCatch(r, fs, error) ==
    Step(Respond([r EXCEPT !.caught = error],
                 ErrorBody(500, "Internal Server Error",
                           "An unexpected error occurred while processing the file")),
         IF r.stored /\ r.path \in fs THEN fs \ {r.path} ELSE fs)

\* a truncation that forgets the marker
Truncate_NoMarker(extractedText) ==
    IF TextLength(extractedText) > MaxTextLength
    THEN Substring(extractedText, MaxTextLength)
    ELSE extractedText

\* "Truncate if too long"
Truncate(extractedText) ==
    IF TextLength(extractedText) > MaxTextLength
    THEN Concat(Substring(extractedText, MaxTextLength), Ellipsis)
    ELSE extractedText

\* fs.unlinkSync(req.file.path)
Unlink(r, fs) == fs \ {r.path}

\* an emptiness test that forgets to trim
UploadExtracted_NoTrim(r0, fs, extractedText) ==
    LET r == [r0 EXCEPT !.extracted = TRUE, !.rawText = extractedText,
                        !.extractedText = extractedText]
    IN  IF extractedText = <<>>
        THEN Step(Respond(r, ErrorBody(400, "Processing Error",
                                       "Could not extract text from the uploaded file")),
                  fs \ {r.path})
        ELSE Step(CallOracle([r EXCEPT !.extractedText =
                                IF TextLength(extractedText) > MaxTextLength
                                THEN Concat(Substring(extractedText, MaxTextLength), Ellipsis)
                                ELSE extractedText]),
                  fs \ {r.path})

\* from the extracted text to the await of the generation oracle
UploadExtracted(r0, fs, extractedText) ==
    LET r == [r0 EXCEPT !.extracted = TRUE, !.rawText = extractedText,
                        !.extractedText = extractedText]
    IN  IF TextTrim(extractedText) = <<>>
        THEN Step(Respond(r, ErrorBody(400, "Processing Error",
                                       "Could not extract text from the uploaded file")),
                  Unlink(r, fs))
        ELSE Step(CallOracle([r EXCEPT !.extractedText = Truncate(extractedText)]),
                  Unlink(r, fs))

\* from the handler's entry to its first await; readOk: fs.readFileSync returns
UploadHandler(r, fs, readOk) ==
    IF ~r.stored
    THEN Step(Respond(r, ErrorBody(400, "Validation Error", "No file uploaded")), fs)
    ELSE IF r.file.mimetype = "application/pdf"
    THEN IF readOk THEN Step([r EXCEPT !.pc = "awaitPdf"], fs)
         ELSE UploadCatch(r, fs, "read")
    ELSE IF r.file.mimetype = "text/plain"
    THEN IF readOk THEN UploadExtracted(r, fs, r.file.content)
         ELSE UploadCatch(r, fs, "read")
    ELSE UploadExtracted(r, fs, <<>>)

\* await pdf(pdfBuffer) settles
UploadPdfParsed(r, fs, outcome) ==
    IF outcome.failed THEN UploadCatch(r, fs, "pdf")
    ELSE UploadExtracted(r, fs, outcome.text)

\* { ...analysisData, metadata: { fileSize, textLength: extractedText.length } }
\* (timestamp and fileName play no part and are left out)
UploadResponseData(r, analysisData) ==
    JObj(SetMember(Spread(analysisData), metadata,
                   JObj(<<Member(fileSize, JNum(r.file.size)),
                          Member(textLength, JNum(TextLength(r.extractedText)))>>)))

\* from the oracle's answer to the response
UploadRespond(r, responseText) ==
    LET p == ParseResponse(responseText)
    IN  IF ~p.ok
        THEN Respond(r, ErrorBody(500, "API Processing Error",
                                  "Failed to parse analysis from AI service"))
        ELSE Respond(r, OkBody(UploadResponseData(r, p.value)))

(* The server's actions *)

Active == DOMAIN requests
Put(id, r) == [i \in Active \cup {id} |-> IF i = id THEN r ELSE requests[i]]
At(id, pc) == id \in Active /\ requests[id].pc = pc

\* a POST /analyze request arrives; its JSON body has been parsed
ReceiveAnalyze(id) ==
    /\ id \notin Active
    /\ \E hasText \in BOOLEAN :
       \E text \in IF hasText THEN Texts ELSE {<<>>} :
          requests' = Put(id, NewRequest("analyze", hasText, text, FALSE, NoFile))
    /\ UNCHANGED <<files, clientVars, parserVars>>

\* a POST /upload request arrives
ReceiveUpload(id) ==
    /\ id \notin Active
    /\ \E hasFile \in BOOLEAN :
       \E file \in IF hasFile THEN UploadFiles ELSE {NoFile} :
          requests' = Put(id, NewRequest("upload", FALSE, <<>>, hasFile, file))
    /\ UNCHANGED <<files, clientVars, parserVars>>

\* upload.single('document'): filter, store under a fresh name, enforce the limit
Multer(id) ==
    /\ At(id, "multer")
    /\ LET r == requests[id]
       IN  IF ~r.hasFile
           THEN /\ requests' = Put(id, [r EXCEPT !.pc = "handler"])
                /\ UNCHANGED files
           ELSE IF ~FileFilter(r.file)
           THEN /\ requests' =
                      Put(id, Respond(r, ErrorMiddleware("Only PDF and text files are allowed")))
                /\ UNCHANGED files
           ELSE IF ~WithinLimits(r.file)
           THEN /\ requests' = Put(id, Respond(r, ErrorMiddleware("LIMIT_FILE_SIZE")))
                /\ UNCHANGED files
           ELSE \E p \in Paths \ (files \cup {requests[i].path : i \in Active}) :
                   /\ requests' = Put(id, [r EXCEPT !.pc = "handler", !.stored = TRUE,
                                                    !.path = p])
                   /\ files' = files \cup {p}
    /\ UNCHANGED <<clientVars, parserVars>>

RunAnalyzeHandler(id) ==
    /\ At(id, "handler")
    /\ requests[id].endpoint = "analyze"
    /\ requests' = Put(id, AnalyzeHandler(requests[id]))
    /\ UNCHANGED <<files, clientVars, parserVars>>

RunUploadHandler(id) ==
    /\ At(id, "handler")
    /\ requests[id].endpoint = "upload"
    /\ \E readOk \in BOOLEAN :
          LET s == UploadHandler(requests[id], files, readOk)
          IN  /\ requests' = Put(id, s.request)
              /\ files' = s.files
    /\ UNCHANGED <<clientVars, parserVars>>

PdfParsed(id) ==
    /\ At(id, "awaitPdf")
    /\ \E outcome \in PdfOutcomes :
          LET s == UploadPdfParsed(requests[id], files, outcome)
          IN  /\ requests' = Put(id, s.request)
              /\ files' = s.files
    /\ UNCHANGED <<clientVars, parserVars>>

OracleFailed(id) ==
    /\ At(id, "awaitOracle")
    /\ IF requests[id].endpoint = "analyze"
       THEN /\ requests' = Put(id, AnalyzeCatch(requests[id], "oracle"))
            /\ UNCHANGED files
       ELSE LET s == UploadCatch(requests[id], files, "oracle")
            IN  /\ requests' = Put(id, s.request)
                /\ files' = s.files
    /\ UNCHANGED <<clientVars, parserVars>>

OracleAnswered(id) ==
    /\ At(id, "awaitOracle")
    /\ \E text \in OracleTexts :
          LET r == [requests[id] EXCEPT !.responseText = text]
          IN  requests' = Put(id, IF r.endpoint = "analyze"
                                  THEN AnalyzeRespond(r, text)
                                  ELSE UploadRespond(r, text))
    /\ UNCHANGED <<files, clientVars, parserVars>>

\* the response has gone out and the request is forgotten
Finish(id) ==
    /\ At(id, "done")
    /\ requests' = [i \in Active \ {id} |-> requests[i]]
    /\ UNCHANGED <<files, clientVars, parserVars>>

(***************************************************************************)
(* The browser controller                                                  *)
(***************************************************************************)
\* the fetches that can be outstanding at one time
MaxInFlight == 2
FetchIds == 1 .. MaxInFlight

NoCurrentFile == "null"
SelectableFiles == {"contract.pdf"}
\* what the user can have typed into the search input
SearchInputs == {<<>>, <<" ">>, <<" ", "a", " ">>}

\* the panels results.innerHTML can hold; of: the fetch whose outcome it shows
Panel(kind, message, of) == [panel |-> kind, message |-> message, of |-> of]
\* showLoader's results.innerHTML = ""
EmptyPanel == Panel("empty", "", 0)
\* clearResults()
clearResults == Panel("no-results", "", 0)
\* an error display that leaves the panel as it is
displayError_Silent(message, of) == results

\* displayError(message)
displayError(message, of) == Panel("error", message, of)
\* displayAnalysisResults(data), when it gets as far as setting results.innerHTML
AnalysisPanel(of) == Panel("analysis", "", of)

\* the message of the catch handlers
CatchMessage(endpoint) ==
    IF endpoint = "analyze" THEN "Failed to analyze text. Please try again."
    ELSE "Failed to analyze document. Please try again."

\* messages the server puts into an { error, message } body
ServerMessages(endpoint) ==
    IF endpoint = "analyze"
    THEN {"Text content is required", "Invalid analysis response structure"}
    ELSE {"Could not extract text from the uploaded file",
          "An unexpected error occurred while processing the file"}

\* what response.json() can resolve to: an { error, message } body, a
\* well-formed AnalysisResult, a body without riskAssessment, or null
Bodies(endpoint) ==
    { [kind |-> "error", message |-> m] : m \in ServerMessages(endpoint) }
    \cup { [kind |-> k, message |-> ""] : k \in {"result", "malformed", "null"} }

NoBody == [kind |-> "", message |-> ""]

\* a fetch: pc is "fetching" until the response is there and its body decoded,
\* then "then" (the data handler is due) or "catch" (the catch handler is due)
NewFetch(endpoint, body) ==
    [endpoint |-> endpoint, body |-> body, pc |-> "fetching", data |-> NoBody]

Outstanding == DOMAIN inflight
PutFetch(id, f) == [i \in Outstanding \cup {id} |-> IF i = id THEN f ELSE inflight[i]]
DropFetch(id) == [i \in Outstanding \ {id} |-> inflight[i]]

\* analyzeText(): nothing without text; else show the loader and fetch /analyze
analyzeText(id) ==
    LET text == trim(searchInput)
    IN  IF text = <<>>
        THEN UNCHANGED <<loader, results, inflight>>
        ELSE /\ loader' = "shown"
             /\ results' = EmptyPanel
             /\ inflight' = PutFetch(id, NewFetch("analyze", [text |-> text]))

\* analyzeDocument(query): nothing without a file; else show the loader and
\* fetch /upload with the file and, if it is not empty, the query
analyzeDocument(id, file, query) ==
    IF file = NoCurrentFile
    THEN UNCHANGED <<loader, results, inflight>>
    ELSE /\ loader' = "shown"
         /\ results' = EmptyPanel
         /\ inflight' = PutFetch(id, NewFetch("upload", [document |-> file, query |-> query]))

\* the change listener of the upload input, with a file chosen
UploadChange(id) ==
    /\ id \notin Outstanding
    /\ \E file \in SelectableFiles :
          /\ currentFile' = file
          /\ analyzeDocument(id, file, <<>>)
    /\ UNCHANGED <<searchInput, serverVars, parserVars>>

\* the click listener of the remove button
DocumentRemove ==
    /\ currentFile' = NoCurrentFile
    /\ results' = clearResults
    /\ UNCHANGED <<searchInput, loader, inflight, serverVars, parserVars>>

\* the user edits the search input
TypeSearch ==
    /\ \E value \in SearchInputs \ {searchInput} : searchInput' = value
    /\ UNCHANGED <<currentFile, loader, results, inflight, serverVars, parserVars>>

\* the keypress listener of the search input, on Enter
KeypressEnter(id) ==
    /\ id \notin Outstanding
    /\ IF currentFile # NoCurrentFile
       THEN analyzeDocument(id, currentFile, trim(searchInput))
       ELSE analyzeText(id)
    /\ inflight' # inflight
    /\ UNCHANGED <<currentFile, searchInput, serverVars, parserVars>>

\* fetch rejects, or response.json() rejects: the catch handler is due
FetchRejects(id) ==
    /\ id \in Outstanding
    /\ inflight[id].pc = "fetching"
    /\ inflight' = PutFetch(id, [inflight[id] EXCEPT !.pc = "catch"])
    /\ UNCHANGED <<currentFile, searchInput, loader, results, serverVars, parserVars>>

\* the response is there and response.json() resolves to data
FetchResolves(id) ==
    /\ id \in Outstanding
    /\ inflight[id].pc = "fetching"
    /\ \E data \in Bodies(inflight[id].endpoint) :
          inflight' = PutFetch(id, [inflight[id] EXCEPT !.pc = "then", !.data = data])
    /\ UNCHANGED <<currentFile, searchInput, loader, results, serverVars, parserVars>>

\* .then(data => ...): hide the loader; show the error of a body with an error
\* field, else render; reading a field of null throws, rendering a body
\* without riskAssessment throws before results.innerHTML is set, and the
\* charts can throw after it is set (chartOk)
ThenData(id) ==
    /\ id \in Outstanding
    /\ inflight[id].pc = "then"
    /\ loader' = "hidden"
    /\ LET f == inflight[id]
       IN  CASE f.data.kind = "null" ->
                  /\ results' = results
                  /\ inflight' = PutFetch(id, [f EXCEPT !.pc = "catch"])
             [] f.data.kind = "error" ->
                  /\ results' = displayError(f.data.message, id)
                  /\ inflight' = DropFetch(id)
             [] f.data.kind = "malformed" ->
                  /\ results' = results
                  /\ inflight' = PutFetch(id, [f EXCEPT !.pc = "catch"])
             [] f.data.kind = "result" ->
                  \E chartOk \in BOOLEAN :
                     /\ results' = AnalysisPanel(id)
                     /\ inflight' = IF chartOk THEN DropFetch(id)
                                    ELSE PutFetch(id, [f EXCEPT !.pc = "catch"])
    /\ UNCHANGED <<currentFile, searchInput, serverVars, parserVars>>

\* .catch(error => ...): hide the loader and show the catch message
Catch(id) ==
    /\ id \in Outstanding
    /\ inflight[id].pc = "catch"
    /\ loader' = "hidden"
    /\ results' = displayError(CatchMessage(inflight[id].endpoint), id)
    /\ inflight' = DropFetch(id)
    /\ UNCHANGED <<currentFile, searchInput, serverVars, parserVars>>

\* the page after DOMContentLoaded
ClientIdle ==
    /\ currentFile = NoCurrentFile
    /\ searchInput = <<>>
    /\ loader = "hidden"
    /\ results = clearResults
    /\ inflight = <<>>

ServerIdle == requests = <<>> /\ files = {}

(***************************************************************************)
(* The response parser on its own                                          *)
(***************************************************************************)
\* the longest string inside a document under test
MaxStringLength == 3
StringAlphabet == {"a", "j", Backtick}

RECURSIVE StringsUpTo(_)
StringsUpTo(n) ==
    IF n = 0 THEN {<<>>}
    ELSE LET shorter == StringsUpTo(n - 1)
         IN  shorter \cup {Append(s, c) : s \in shorter, c \in StringAlphabet}

\* JSON documents the oracle may return: a string, alone, in an object, in an array
JsonDocuments ==
    UNION { { Serialize(JStr(s)),
              Serialize(JObj(<<Member(simplified, JStr(s))>>)),
              Serialize(JArr(<<JStr(s), JNull>>)) } : s \in StringsUpTo(MaxStringLength) }

ParserIdle == J = <<>> /\ parsed = <<>>

Recorded(way, result) ==
    [w \in DOMAIN parsed \cup {way} |-> IF w = way THEN result ELSE parsed[w]]

\* the response parser given J as it is
ParseRaw ==
    /\ "raw" \notin DOMAIN parsed
    /\ parsed' = Recorded("raw", ParseResponse(J))
    /\ UNCHANGED <<J, serverVars, clientVars>>

\* the response parser given J inside code fences
ParseFenced ==
    /\ "fenced" \notin DOMAIN parsed
    /\ parsed' = Recorded("fenced", ParseResponse(Fenced(J)))
    /\ UNCHANGED <<J, serverVars, clientVars>>

ParserInit == /\ J \in JsonDocuments
              /\ parsed = <<>>
              /\ ServerIdle
              /\ ClientIdle

ParserNext == ParseRaw \/ ParseFenced

ParserSpec == ParserInit /\ [][ParserNext]_vars

ClientInit == ServerIdle /\ ClientIdle /\ ParserIdle

ClientNext ==
    \/ DocumentRemove
    \/ TypeSearch
    \/ \E id \in FetchIds :
          \/ UploadChange(id)
          \/ KeypressEnter(id)
          \/ FetchRejects(id)
          \/ FetchResolves(id)
          \/ ThenData(id)
          \/ Catch(id)

ClientSpec == ClientInit /\ [][ClientNext]_vars

Init == ServerIdle /\ ClientIdle /\ ParserIdle

Next ==
    \E id \in RequestIds :
       \/ ReceiveAnalyze(id)
       \/ ReceiveUpload(id)
       \/ Multer(id)
       \/ RunAnalyzeHandler(id)
       \/ RunUploadHandler(id)
       \/ PdfParsed(id)
       \/ OracleFailed(id)
       \/ OracleAnswered(id)
       \/ Finish(id)

Spec == Init /\ [][Next]_vars

(***************************************************************************)
(* Properties of the analysis service                                      *)
(***************************************************************************)
Uploads == {requests[id] : id \in {i \in Active : requests[i].endpoint = "upload"}}
Analyzes == {requests[id] : id \in {i \in Active : requests[i].endpoint = "analyze"}}
Responded(r) == r.pc = "done"
\* the body is { error, message }
IsErrorBody(response) == DOMAIN response = {"status", "error", "message"}
\* the oracle answered r with a text
Answered(r) == r.responseText # <<>>

\* the AnalysisResult shape: simplified, riskAssessment { overallRisk, riskFactors }
\* and metadata
WellFormed(body) ==
    /\ body.type = "object"
    /\ GetProp(body, simplified).type = "string"
    /\ GetProp(body, riskAssessment).type = "object"
    /\ GetProp(GetProp(body, riskAssessment), overallRisk) \in {JStr(low), JStr(medium), JStr(high)}
    /\ GetProp(GetProp(body, riskAssessment), riskFactors).type = "array"
    /\ GetProp(body, metadata).type = "object"

\* C1: once an /upload request whose file multer stored has been answered, on
\* whatever path, its temporary file is no longer in the upload directory.
C1_TempFileRemoved ==
    \A r \in Uploads : (r.stored /\ Responded(r)) => r.path \notin files

\* C1 witnesses: a stored upload answered after pdf-parse rejected
C1_Witness ==
    \E r \in Uploads :
       /\ r.stored /\ Responded(r) /\ r.caught = "pdf"
       /\ r.path \notin files

\* C2: a /analyze request with text of length 1..10000 is answered either 200
\* with a well-formed AnalysisResult or non-200 with { error, message }.
C2_AnalyzeWellFormedOrError ==
    \A r \in Analyzes :
       (/\ Responded(r)
        /\ r.hasText
        /\ TextLength(r.text) \in 1 .. MaxTextLength)
       => \/ r.response.status = 200 /\ WellFormed(r.response.body)
          \/ r.response.status # 200 /\ IsErrorBody(r.response)

\* the parsed oracle output lacks simplified or riskAssessment at the top level
LacksRequired(v) ==
    \/ GetProp(v, simplified) = JUndefined
    \/ GetProp(v, riskAssessment) = JUndefined

\* C3: on both endpoints, oracle output that parses as JSON but lacks simplified
\* or riskAssessment is answered with a 500 { error, message }, never a 200.
C3_MissingFieldIs500 ==
    \A r \in Uploads \cup Analyzes :
       (/\ Responded(r)
        /\ Answered(r)
        /\ ParseResponse(r.responseText).ok
        /\ LacksRequired(ParseResponse(r.responseText).value))
       => r.response.status = 500 /\ IsErrorBody(r.response)

\* the text of a /analyze request is absent, empty or longer than the limit
InvalidText(r) == ~r.hasText \/ TextLength(r.text) = 0 \/ TextLength(r.text) > MaxTextLength

C5_FileValidationIs400 ==
    \A r \in Uploads :
       (/\ Responded(r)
        /\ \/ ~r.hasFile
           \/ r.file.mimetype \notin {"application/pdf", "text/plain"}
           \/ r.file.size > MaxFileSize)
       => r.response.status \in 400 .. 499 /\ IsErrorBody(r.response)

\* C6: an accepted upload whose extracted text is empty or only white space is
\* answered 400 { error, message } and the generation oracle is never invoked.
C6_EmptyExtractionIs400 ==
    \A r \in Uploads :
       (r.extracted /\ TextTrim(r.rawText) = <<>>) =>
          /\ r.oracleCalls = 0
          /\ Responded(r)
          /\ r.response.status = 400
          /\ IsErrorBody(r.response)

C6_Witness ==
    \E r \in Uploads :
       /\ r.extracted /\ r.rawText # <<>> /\ TextTrim(r.rawText) = <<>>
       /\ r.response.status = 400

\* C7: an error of the PDF-parsing oracle is answered 400, as an extraction
\* error, not 500.
C7_PdfErrorIs400 ==
    \A r \in Uploads : (Responded(r) /\ r.caught = "pdf") => r.response.status = 400

\* C8: extracted text longer than 10000 characters is analysed as its first
\* 10000 characters followed by '...', text of at most 10000 characters is
\* analysed unchanged, and metadata.textLength of a 200 response is the length
\* of the text analysed.
C8_Truncation ==
    \A r \in Uploads :
       (r.extracted /\ r.oracleCalls > 0) =>
          /\ TextLength(r.rawText) > 10000 =>
                /\ r.extractedText = Concat(Substring(r.rawText, 10000), <<Run(".", 3)>>)
                /\ TextLength(r.extractedText) = 10003
          /\ TextLength(r.rawText) <= 10000 => r.extractedText = r.rawText
          /\ (Responded(r) /\ r.response.status = 200) =>
                GetProp(GetProp(r.response.body, metadata), textLength)
                   = JNum(TextLength(r.extractedText))

C8_Witness ==
    \E r \in Uploads :
       /\ r.extracted /\ TextLength(r.rawText) > 10000
       /\ Responded(r) /\ r.response.status = 200
       /\ GetProp(GetProp(r.response.body, metadata), textLength) = JNum(10003)

(***************************************************************************)
(* Properties of the response parser and of the browser controller         *)
(***************************************************************************)
\* C9: for every JSON document J, the response parser applied to J inside
\* code fences yields what it yields for J as it is, and that is the object
\* J denotes: the fence stripping changes nothing inside J.
C9_FencedParsesAsRaw ==
    ("raw" \in DOMAIN parsed /\ "fenced" \in DOMAIN parsed) =>
        /\ parsed["fenced"] = parsed["raw"]
        /\ parsed["fenced"] = JSONParse(J)

\* a fetch whose promise chain is about to end in failure
Failing(f) == f.pc = "catch" \/ (f.pc = "then" /\ f.data.kind = "error")
\* the message its error panel carries
FailureMessage(f) ==
    IF f.pc = "then" THEN f.data.message ELSE CatchMessage(f.endpoint)

\* C10: a fetch that fails (a body with an error field, a network or decoding
\* failure, an exception while rendering) leaves the set of outstanding
\* fetches only in a step after which the results panel shows the error panel
\* of that failure, whatever else is outstanding.
C10_FailureShown ==
    [][\A id \in DOMAIN inflight :
          (Failing(inflight[id]) /\ id \notin DOMAIN inflight')
          => results' = Panel("error", FailureMessage(inflight[id]), id)]_vars

\* C10 witness: the catch message of a failed upload is on display while
\* another fetch is still outstanding
C10_Witness ==
    /\ results.panel = "error"
    /\ results.message = "Failed to analyze document. Please try again."
    /\ results.of \notin DOMAIN inflight
    /\ DOMAIN inflight # {}

\* a fetch whose response, or whose data handler, is still to come
Pending(f) == f.pc \in {"fetching", "then"}

\* C11: no analysis request is issued while an earlier one is outstanding: at
\* most one fetch is outstanding at any time, the loader is shown only while
\* a fetch is outstanding, and it is shown as long as a fetch is pending.
C11_OneRequestAtATime ==
    /\ Cardinality(DOMAIN inflight) <= 1
    /\ loader = "shown" => DOMAIN inflight # {}
    /\ (\E id \in DOMAIN inflight : Pending(inflight[id])) => loader = "shown"

\* the input of r passed validation and, for an upload, its text was extracted
InputAccepted(r) ==
    IF r.endpoint = "analyze" THEN ~InvalidText(r)
    ELSE r.stored /\ r.extracted /\ TextTrim(r.rawText) # <<>>

\* the oracle call of r failed and r was answered 500 with { error, message }
OracleFailureAnswered(r) ==
    /\ Responded(r)
    /\ r.response.status = 500
    /\ IsErrorBody(r.response)
    /\ r.oracleCalls = 1

\* C12: a request calls the generation oracle at most once, and only after its
\* input was validated and its text extracted; when that call fails the
\* request is at once answered 500 with { error, message }; and a request that
\* has been answered never changes again: no retry, no second response.
C12_SingleOracleCall ==
    /\ [](\A r \in Uploads \cup Analyzes :
            /\ r.oracleCalls <= 1
            /\ r.oracleCalls > 0 => InputAccepted(r)
            /\ r.caught = "oracle" => OracleFailureAnswered(r))
    /\ [][\A id \in Active :
            /\ OracleFailed(id) => /\ requests'[id].caught = "oracle"
                                   /\ OracleFailureAnswered(requests'[id])
            /\ Responded(requests[id]) /\ id \in DOMAIN requests'
                  => requests'[id] = requests[id]]_vars

\* C12 witness: the oracle call of an upload failed after its text had been
\* extracted, and the request stands answered 500 after a single call
C12_Witness ==
    \E r \in Uploads :
       r.caught = "oracle" /\ InputAccepted(r) /\ OracleFailureAnswered(r)
====
